---- MODULE Spec2Model ----
(***************************************************************************)
(* Model of src/utils/utils.go (package utils of mongosync): the oplog     *)
(* replay job CustReplayOplog and the oplog staging job CustSyncOplog,     *)
(* with the pure helpers CustGetOplogNs, CustContainsNs and CustFilter,    *)
(* and the snapshot copy CustSyncCollection with the index cloner          *)
(* CustSyncIndex and the batched writer CustInsertMany, whose fallback     *)
(* (producer, channel, worker pool) is also modelled goroutine by          *)
(* goroutine.                                                              *)
(*                                                                         *)
(* Strings are sequences of symbols.  A symbol is one character ("A",      *)
(* ".", "x") or a whole word that only ever occurs whole in the inputs     *)
(* ("$cmd", "local", "oplog", "rs", "system", "indexes", "syncoplog").     *)
(* strings.SplitN, HasPrefix and TrimSuffix are computed on the sequence.  *)
(*                                                                         *)
(* A primitive.Timestamp (T, I) is one natural number in the lexicographic *)
(* order of the pair; 0 is the zero Timestamp{}.                           *)
(***************************************************************************)
EXTENDS Integers, Sequences, FiniteSets, TLC

(* ------------------------------ bounds -------------------------------- *)

\* Number of entries the source ever writes to its oplog during one run.
MaxLog == 3

\* Largest number of documents the source collection of a copy holds.
MaxDocs == 5

\* Documents per batch of the snapshot copy: line 283 flushes every 10000
\* documents, the model every BatchSize.
BatchSize == 2

\* Capacity of docsChan: line 318 makes it 1000, the model ChanCap.
ChanCap == 1

\* Width of the worker pool: line 387 starts 500 workers, the model
\* NumWorkers.
NumWorkers == 2

(* ------------------------------ strings ------------------------------- *)

Dot == <<".">>

EmptyStr == <<>>

Cmd == <<"$cmd">>

\* fmt.Sprintf("%s.%s", db, coll)
SprintfNs(db, coll) == db \o Dot \o coll

\* strings.HasPrefix(s, prefix)
HasPrefix(s, prefix) ==
    /\ Len(prefix) <= Len(s)
    /\ SubSeq(s, 1, Len(prefix)) = prefix

\* strings.HasSuffix(s, suffix)
HasSuffix(s, suffix) ==
    /\ Len(suffix) <= Len(s)
    /\ SubSeq(s, Len(s) - Len(suffix) + 1, Len(s)) = suffix

\* strings.TrimSuffix(s, suffix)
TrimSuffix(s, suffix) ==
    IF HasSuffix(s, suffix) THEN SubSeq(s, 1, Len(s) - Len(suffix)) ELSE s

\* Index of the first "." of s, 0 when there is none.
FirstDot(s) ==
    IF \E i \in 1..Len(s) : s[i] = "."
    THEN CHOOSE i \in 1..Len(s) : s[i] = "." /\ \A j \in 1..(i - 1) : s[j] # "."
    ELSE 0

\* strings.SplitN(s, ".", 2): one element when s has no ".", else the part
\* before the first "." and the whole rest.
SplitN2(s) ==
    IF FirstDot(s) = 0 THEN <<s>>
    ELSE <<SubSeq(s, 1, FirstDot(s) - 1), SubSeq(s, FirstDot(s) + 1, Len(s))>>

(* A few namespaces used by the inputs. *)
NsAx == <<"A", ".", "x">>
NsAxx == <<"A", ".", "x", "x">>
NsAy == <<"A", ".", "y">>
NsBy == <<"B", ".", "y">>
NsABx == <<"A", "B", ".", "x">>
NsACmd == <<"A", ".", "$cmd">>
NsBCmd == <<"B", ".", "$cmd">>
NsAIdx == <<"A", ".", "system", ".", "indexes">>
NsNoDot == <<"A", "x">>
NsDotX == <<".", "x">>
NsLocalOplog == <<"local", ".", "oplog", ".", "rs">>
NsStaged == <<"syncoplog", ".", "oplog", ".", "rs">>

(* --------------------------- oplog entries ---------------------------- *)

(* The payload o of an entry (OPLOG.O, an interface{}): doc says whether   *)
(* it decoded to a bson.D; keys is the set of its top-level field names;   *)
(* ns is the string value of its "ns" field when it has one.  A field      *)
(* "name", when present, holds a string.                                   *)
Doc(keys, ons) == [doc |-> TRUE, keys |-> keys, ns |-> ons]

NotDoc == [doc |-> FALSE, keys |-> {}, ns |-> EmptyStr]

\* The fields of OPLOG the replay reads: op, ns, o (o2 is passed through).
Entry(op, ns, o) == [op |-> op, ns |-> ns, o |-> o]

\* periodic noop: op n, empty ns
ENoop == Entry("n", EmptyStr, Doc({"msg"}, EmptyStr))
\* plain inserts into A.x, A.y, B.y
EInsAx == Entry("i", NsAx, Doc({"_id", "v"}, EmptyStr))
EInsAy == Entry("i", NsAy, Doc({"_id", "v"}, EmptyStr))
EInsBy == Entry("i", NsBy, Doc({"_id", "v"}, EmptyStr))
\* index build on A.x, carried as an insert into A.system.indexes
EIdxAx == Entry("i", NsAIdx, Doc({"key", "name", "ns"}, NsAx))
\* index build on A.x whose descriptor has no name
EIdxNoName == Entry("i", NsAIdx, Doc({"key", "ns"}, NsAx))
\* insert whose o has neither _id nor ns nor name
EInsBare == Entry("i", NsAx, Doc({"v"}, EmptyStr))
\* insert whose o is not a document
EInsNotDoc == Entry("i", NsAx, NotDoc)
\* updates of A.x: $set, another operator, full replacement
EUpdSet == Entry("u", NsAx, Doc({"$set"}, EmptyStr))
EUpdInc == Entry("u", NsAx, Doc({"$inc"}, EmptyStr))
EUpdRepl == Entry("u", NsAx, Doc({"_id", "v"}, EmptyStr))
\* update whose ns has no "."
EUpdNoDot == Entry("u", NsNoDot, Doc({"$set"}, EmptyStr))
\* delete from A.x
EDelAx == Entry("d", NsAx, Doc({"_id"}, EmptyStr))
\* commands on database A: with and without a command document
ECmdA == Entry("c", NsACmd, Doc({"drop"}, EmptyStr))
ECmdNotDoc == Entry("c", NsACmd, NotDoc)
\* an op code the switch does not know
EUnknown == Entry("x", NsAx, Doc({"_id"}, EmptyStr))

Entries ==
    { ENoop, EInsAx, EInsAy, EInsBy, EIdxAx, EIdxNoName, EInsBare, EInsNotDoc,
      EUpdSet, EUpdInc, EUpdRepl, EUpdNoDot, EDelAx, ECmdA, ECmdNotDoc,
      EUnknown }

\* The zero value of OPLOG, before the first Decode.
NoEntry == Entry("", EmptyStr, NotDoc)

(* ------------------------- namespace helpers -------------------------- *)

(* CustGetOplogNs.  Every panic inside it (o is not a bson.D, o.ns is not  *)
(* a string, NS has one element) is recovered by the deferred function,    *)
(* and the function then returns the zero values "", "".                   *)
CustGetOplogNs(oplog) ==
    IF oplog.ns # EmptyStr
    THEN IF ~oplog.o.doc
         THEN <<EmptyStr, EmptyStr>>
         ELSE IF oplog.op = "i" /\ "_id" \notin oplog.o.keys
              THEN IF "ns" \notin oplog.o.keys
                   THEN <<EmptyStr, EmptyStr>>
                   ELSE IF Len(SplitN2(oplog.o.ns)) < 2
                        THEN <<EmptyStr, EmptyStr>>
                        ELSE <<SplitN2(oplog.o.ns)[1], SplitN2(oplog.o.ns)[2]>>
              ELSE IF Len(SplitN2(oplog.ns)) < 2
                   THEN <<EmptyStr, EmptyStr>>
                   ELSE <<SplitN2(oplog.ns)[1], SplitN2(oplog.ns)[2]>>
    ELSE <<EmptyStr, EmptyStr>>

\* CustContainsNs comparing whole namespaces only.
CustContainsNsExact(oplogns, nsSlice) ==
    \E k \in 1..Len(nsSlice) : oplogns = nsSlice[k]

\* The closure CustContainsNs of CustReplayOplog; nsSlice is a sequence.
CustContainsNs(oplogns, nsSlice) ==
    \E k \in 1..Len(nsSlice) :
        \/ oplogns = nsSlice[k]
        \/ HasPrefix(nsSlice[k], TrimSuffix(oplogns, Cmd))

\* CustFilter that never looks the namespace up.
CustFilterUnmapped(ns, nsnsMap) ==
    [SrcDb |-> SplitN2(ns)[1], SrcColl |-> SplitN2(ns)[2],
     DstDb |-> SplitN2(ns)[1], DstColl |-> SplitN2(ns)[2]]

\* CustFilter; nsnsMap is a function from source ns to destination ns.
CustFilter(ns, nsnsMap) ==
    IF ns \in DOMAIN nsnsMap
    THEN [SrcDb |-> SplitN2(ns)[1], SrcColl |-> SplitN2(ns)[2],
          DstDb |-> SplitN2(nsnsMap[ns])[1], DstColl |-> SplitN2(nsnsMap[ns])[2]]
    ELSE [SrcDb |-> SplitN2(ns)[1], SrcColl |-> SplitN2(ns)[2],
          DstDb |-> SplitN2(ns)[1], DstColl |-> SplitN2(ns)[2]]

(* ------------------------- per-entry dispatch ------------------------- *)

(* What one loop iteration does with a decoded entry:                      *)
(*   act = "op"     one destination call kind on (db, coll) is issued;     *)
(*                  RunCommand runs on the database, coll is empty         *)
(*   act = "none"   admitted, no destination call (n, unknown op)          *)
(*   act = "skip"   not admitted by CustContainsNs                         *)
(*   act = "panic"  a type assertion of the switch panics, unrecovered     *)
Outcome(act, kind, db, coll) == [act |-> act, kind |-> kind, db |-> db, coll |-> coll]

NoOp == Outcome("none", "", EmptyStr, EmptyStr)

\* The switch with the case "n" falling into the case "c".
ApplyOpNoopAsCommand(oplog, dstDb, dstColl) ==
    CASE oplog.op = "i" ->
            IF ~oplog.o.doc
            THEN Outcome("panic", "", dstDb, dstColl)
            ELSE IF "_id" \in oplog.o.keys
                 THEN Outcome("op", "ReplaceOne", dstDb, dstColl)
                 ELSE IF "name" \notin oplog.o.keys
                      THEN Outcome("panic", "", dstDb, dstColl)
                      ELSE Outcome("op", "CreateIndex", dstDb, dstColl)
      [] oplog.op = "u" ->
            IF ~oplog.o.doc
            THEN Outcome("panic", "", dstDb, dstColl)
            ELSE IF "$set" \in oplog.o.keys
                 THEN Outcome("op", "UpdateOne", dstDb, dstColl)
                 ELSE Outcome("op", "ReplaceOne", dstDb, dstColl)
      [] oplog.op = "d" -> Outcome("op", "DeleteOne", dstDb, dstColl)
      [] oplog.op \in {"c", "n"} -> Outcome("op", "RunCommand", dstDb, EmptyStr)
      [] OTHER -> NoOp

\* The switch on oplog.OP, on the mapped destination (dstDb, dstColl).
ApplyOp(oplog, dstDb, dstColl) ==
    CASE oplog.op = "i" ->
            IF ~oplog.o.doc
            THEN Outcome("panic", "", dstDb, dstColl)
            ELSE IF "_id" \in oplog.o.keys
                 THEN Outcome("op", "ReplaceOne", dstDb, dstColl)
                 ELSE IF "name" \notin oplog.o.keys
                      THEN Outcome("panic", "", dstDb, dstColl)
                      ELSE Outcome("op", "CreateIndex", dstDb, dstColl)
      [] oplog.op = "u" ->
            IF ~oplog.o.doc
            THEN Outcome("panic", "", dstDb, dstColl)
            ELSE IF "$set" \in oplog.o.keys
                 THEN Outcome("op", "UpdateOne", dstDb, dstColl)
                 ELSE Outcome("op", "ReplaceOne", dstDb, dstColl)
      [] oplog.op = "d" -> Outcome("op", "DeleteOne", dstDb, dstColl)
      [] oplog.op = "c" -> Outcome("op", "RunCommand", dstDb, EmptyStr)
      [] oplog.op = "n" -> NoOp
      [] OTHER -> NoOp

\* The effective namespace string the loop filters and maps.
EffectiveNs(oplog) == SprintfNs(CustGetOplogNs(oplog)[1], CustGetOplogNs(oplog)[2])

\* Lines 527-588: get the namespace, filter, map, apply.
Dispatch(oplog, nsSlice, nsnsMap) ==
    IF CustContainsNs(EffectiveNs(oplog), nsSlice)
    THEN ApplyOp(oplog,
                 CustFilter(EffectiveNs(oplog), nsnsMap).DstDb,
                 CustFilter(EffectiveNs(oplog), nsnsMap).DstColl)
    ELSE Outcome("skip", "", EmptyStr, EmptyStr)

(* ------------------------------- state -------------------------------- *)

VARIABLES
    args,       \* the arguments of the call, fixed for the run
    head,       \* number of entries the source has written to its oplog
    lo,         \* number of oldest entries the capped log has overwritten
    pc,         \* where the job is
    cause,      \* why the job ended, "" while it runs
    clients,    \* state of the job's source and destination clients
    cursor,     \* state of the main cursor and the index it has passed
    oplog,      \* the decoded entry whose destination call is in flight, and
                \* its index (the Go variable is overwritten by every Decode)
    inflight,   \* the destination call that has not returned yet
    delivered,  \* indices of the entries cur.Next has delivered, in order
    started,    \* indices of the entries whose destination call was issued
    completed,  \* indices of the entries whose destination call returned
    errLogged,  \* indices of the entries whose destination call failed
    staged,     \* the documents written to syncoplog.oplog.rs, in write order:
                \* the index of the source entry, its field names, and the
                \* field names of the document written
    dIn,        \* one entry with a filter and a mapping, for the dispatch alone
    dOut,       \* what the dispatch does with dIn
    copyArgs,   \* the arguments of CustSyncCollection and the source it reads
    cpc,        \* where the copy is, and why it ended
    open,       \* clients connected and cursors opened by the copy, not released
    idxNum,     \* number of source indexes CustSyncIndex has created
    docNum,     \* docNum of CustSyncCollection
    docs,       \* docs of CustSyncCollection: the _ids of the current batch
    insertedNum, \* insertedNum of CustSyncCollection
    dstColl,    \* content of the destination collection, by _id
    docsChan,   \* documents of a failed bulk the workers have not handled yet
    sucessNum,  \* sucessNum of the running CustInsertMany
    failNum,    \* failNum of the running CustInsertMany
    batches,    \* the calls of CustInsertMany of this run, with what they returned
    run,        \* which call of CustSyncCollection this is, with the destination
                \* content the previous one left
    faulty,     \* an error other than a duplicate key has been injected
    failing,    \* the documents whose fallback call fails for another reason than
                \* a duplicate key
    producer,   \* the producer goroutine: documents sent, channel closed
    buffer,     \* the documents in docsChan, oldest first
    workers,    \* the worker goroutines: where each is, with its document
    pool,       \* the goroutine of CustInsertMany: workers started, wg counter
    received    \* the documents received from docsChan, in order

vars ==
    <<args, head, lo, pc, cause, clients, cursor, oplog, inflight, delivered,
      started, completed, errLogged, staged, dIn, dOut, copyArgs, cpc, open, idxNum,
      docNum, docs, insertedNum, dstColl, docsChan, sucessNum, failNum, batches,
      run, faulty, failing, producer, buffer, workers, pool, received>>

\* The variables of the job.
jobVars ==
    <<args, head, lo, pc, cause, clients, cursor, oplog, inflight, delivered,
      started, completed, errLogged, staged>>

\* The variables of the snapshot copy.
copyVars ==
    <<copyArgs, cpc, open, idxNum, docNum, docs, insertedNum, dstColl, docsChan,
      sucessNum, failNum, batches, run, faulty>>

\* The variables of the goroutines of the fallback of CustInsertMany.
poolVars == <<failing, producer, buffer, workers, pool, received>>

\* The variables the replay and the staging never touch.
pureVars == <<dIn, dOut, copyVars, poolVars>>

\* The ts of the i-th entry the source writes; odd values fall between two
\* entries.
TsOf(i) == 2 * i

\* The entries the source collection holds now.
InLog(i) == lo < i /\ i <= head

(* ----------------------------- arguments ------------------------------ *)

NoMap == <<>>

MapAxBy == (NsAx :> NsBy)

MapACmdBCmd == (NsACmd :> NsBCmd)

Call(job, startTS, endTS, src, nsSlice, nsnsMap) ==
    [job |-> job, startTS |-> startTS, endTS |-> endTS,
     srcOplogNamespace |-> src, nsSlice |-> nsSlice, nsnsMap |-> nsnsMap]

\* startTS: the ts of the first entry, a ts between two entries, the ts of
\* the second entry.
StartTSs == {TsOf(1), TsOf(1) + 1, TsOf(2)}

\* endTS: the zero Timestamp (tail forever), or the ts of the second entry.
EndTSs == {0, TsOf(2)}

SrcNamespaces == {EmptyStr, NsLocalOplog, NsStaged}

NsSlices ==
    { <<>>, <<NsAx>>, <<NsAxx>>, <<NsBy>>, <<NsABx>>, <<NsAy, NsBy>>, <<NsACmd>>,
      <<NsDotX>> }

NsMaps == {NoMap, MapAxBy, MapACmdBCmd}

(* The calls the model runs: every watermark and source with one filter,   *)
(* every filter and mapping with one watermark, a source namespace without *)
(* a ".", and the staging job at every watermark.                          *)
Calls ==
    { Call("replay", s, e, src, <<NsAx>>, NoMap) :
        s \in StartTSs, e \in EndTSs, src \in SrcNamespaces }
    \cup { Call("replay", TsOf(1), 0, EmptyStr, f, m) : f \in NsSlices, m \in NsMaps }
    \cup { Call("replay", TsOf(1), 0, NsNoDot, <<NsAx>>, NoMap) }
    \cup { Call("stage", s, 0, EmptyStr, <<>>, NoMap) : s \in StartTSs }

\* Lines 429-431: the default source namespace.
SrcOplogNamespace ==
    IF args.srcOplogNamespace = EmptyStr THEN NsLocalOplog ELSE args.srcOplogNamespace

\* Lines 455-461 and 743: the cursor is tailable-await on local.oplog.rs.
Tailing == args.job = "stage" \/ SrcOplogNamespace = NsLocalOplog

\* Lines 462-466 and 745: the ts range of the filter.
InFilter(i) ==
    /\ TsOf(i) >= args.startTS
    /\ (args.job = "stage" \/ args.endTS = 0 \/ TsOf(i) <= args.endTS)

\* The first entry of the collection, in natural order, with ts >= startTS;
\* 0 when there is none.
FirstGte ==
    IF \E i \in 1..head : InLog(i) /\ TsOf(i) >= args.startTS
    THEN CHOOSE i \in 1..head :
            /\ InLog(i) /\ TsOf(i) >= args.startTS
            /\ \A j \in 1..(i - 1) : ~(InLog(j) /\ TsOf(j) >= args.startTS)
    ELSE 0

NoCall == Outcome("", "", EmptyStr, EmptyStr)

\* The job before it is called with the arguments a.
JobAtStart(a) ==
    /\ args = a
    /\ head = 0
    /\ lo = 0
    /\ pc = "start"
    /\ cause = ""
    /\ clients = [src |-> "none", dst |-> "none"]
    /\ cursor = [state |-> "none", pos |-> 0]
    /\ oplog = [idx |-> 0, e |-> NoEntry]
    /\ inflight = NoCall
    /\ delivered = <<>>
    /\ started = <<>>
    /\ completed = <<>>
    /\ errLogged = {}
    /\ staged = <<>>

NoInput == [e |-> NoEntry, nsSlice |-> <<>>, nsnsMap |-> NoMap]

(* -------------------- arguments of the snapshot copy ------------------ *)

\* The _ids a collection may hold.  The source collection of a copy holds
\* the documents 1..srcDocs, and its cursor returns them in this order.
Ids == 1..MaxDocs

\* The names of the indexes of the source collection, in the order
\* Indexes().List returns them.
SrcIndexes == <<"_id_", "v_1">>

\* The arguments of CustSyncCollection the model reads, with the size of the
\* source collection.
CopyCall(updateOverwrite, noIndex, srcDocs) ==
    [updateOverwrite |-> updateOverwrite, noIndex |-> noIndex, srcDocs |-> srcDocs]

CopyCalls == {CopyCall(u, x, n) : u \in BOOLEAN, x \in BOOLEAN, n \in 0..MaxDocs}

(* The content of a collection: for every _id, "none" when it holds no     *)
(* document with this _id, "src" when the document has the content of the  *)
(* source's document, "old" when it has another content.                   *)
EmptyColl == [i \in Ids |-> "none"]

\* The destination before the copy: empty, or one document whose content is
\* not the source's.
DstColls == {EmptyColl} \cup {[EmptyColl EXCEPT ![k] = "old"] : k \in Ids}

NoneOpen == [src |-> 0, dst |-> 0, cur |-> 0]

\* The copy before CustSyncCollection is called with the arguments a on the
\* destination content d.
CopyAtStart(a, d) ==
    /\ copyArgs = a
    /\ cpc = [at |-> "start", cause |-> ""]
    /\ open = NoneOpen
    /\ idxNum = 0
    /\ docNum = 0
    /\ docs = <<>>
    /\ insertedNum = 0
    /\ dstColl = d
    /\ docsChan = {}
    /\ sucessNum = 0
    /\ failNum = 0
    /\ batches = <<>>
    /\ run = [n |-> 1, first |-> d]
    /\ faulty = FALSE

\* The goroutines of the fallback before line 317: none is started.
PoolAtStart ==
    /\ producer = [sent |-> 0, closed |-> FALSE]
    /\ buffer = <<>>
    /\ workers = [w \in 1..NumWorkers |-> [at |-> "none", doc |-> 0, ok |-> FALSE]]
    /\ pool = [at |-> "none", started |-> 0, wg |-> 0, first |-> EmptyColl]
    /\ received = <<>>

\* No copy is running.
CopyIdle ==
    /\ CopyAtStart(CopyCall(FALSE, TRUE, 0), EmptyColl)
    /\ failing = {}
    /\ PoolAtStart

Init ==
    /\ \E a \in Calls : JobAtStart(a)
    /\ dIn = NoInput
    /\ dOut = NoCall
    /\ CopyIdle

(* ------------------------------ the source ---------------------------- *)

Running == pc \in {"start", "validate", "open", "next", "apply"}

\* The source appends one entry to its oplog.
SrcWrite ==
    /\ Running
    /\ head < MaxLog
    /\ head' = head + 1
    /\ UNCHANGED <<args, lo, pc, cause, clients, cursor, oplog, inflight,
                   delivered, started, completed, errLogged>>
    /\ UNCHANGED <<staged, pureVars>>

\* The capped collection local.oplog.rs overwrites its oldest entry; the
\* newest entry always survives.  A staged copy is not capped.
SrcTruncate ==
    /\ Running
    /\ SrcOplogNamespace = NsLocalOplog \/ args.job = "stage"
    /\ lo + 1 < head
    /\ lo' = lo + 1
    /\ UNCHANGED <<args, head, pc, cause, clients, cursor, oplog, inflight,
                   delivered, started, completed, errLogged>>
    /\ UNCHANGED <<staged, pureVars>>

(* ------------------------------ job exits ----------------------------- *)

\* log.Fatal: os.Exit(1), no deferred function runs.
Fatal(c) ==
    /\ pc' = "fatal"
    /\ cause' = c

\* The deferred calls, run on return and while a panic unwinds:
\* cur.Close, dstClient.Disconnect, srcClient.Disconnect.
Deferred ==
    /\ clients' = [src |-> IF clients.src = "connected" THEN "disconnected" ELSE clients.src,
                   dst |-> IF clients.dst = "connected" THEN "disconnected" ELSE clients.dst]
    /\ cursor' = [cursor EXCEPT !.state = IF @ = "open" THEN "closed" ELSE @]

(* ----------------- CustReplayOplog and CustSyncOplog ------------------ *)

\* Lines 432-435: the source namespace does not split into db and coll.
BadNamespace ==
    /\ pc = "start"
    /\ args.job = "replay"
    /\ Len(SplitN2(SrcOplogNamespace)) # 2
    /\ Fatal("nsformat")
    /\ UNCHANGED <<args, head, lo, clients, cursor, oplog, inflight, delivered,
                   started, completed, errLogged>>
    /\ UNCHANGED <<staged, pureVars>>

\* Lines 437-440 and 735-738: both clients connect.
Connect ==
    /\ pc = "start"
    /\ args.job = "stage" \/ Len(SplitN2(SrcOplogNamespace)) = 2
    /\ clients' = [src |-> "connected", dst |-> "connected"]
    /\ pc' = "validate"
    /\ UNCHANGED <<args, head, lo, cause, cursor, oplog, inflight, delivered,
                   started, completed, errLogged>>
    /\ UNCHANGED <<staged, pureVars>>

\* Line 155: MongoArgs.Connect ends the process when mongo.Connect fails;
\* when the destination fails the source client is already connected.
ConnectFail(which) ==
    /\ pc = "start"
    /\ args.job = "stage" \/ Len(SplitN2(SrcOplogNamespace)) = 2
    /\ clients' = [src |-> IF which = "dst" THEN "connected" ELSE "none", dst |-> "none"]
    /\ Fatal("connect")
    /\ UNCHANGED <<args, head, lo, cursor, oplog, inflight, delivered, started,
                   completed, errLogged>>
    /\ UNCHANGED <<staged, pureVars>>

\* ValidateOk accepting whatever entry the probe returns first.
ValidateOkAnyFirst ==
    /\ pc = "validate"
    /\ FirstGte # 0
    /\ pc' = "open"
    /\ UNCHANGED <<args, head, lo, cause, clients, cursor, oplog, inflight,
                   delivered, started, completed, errLogged>>
    /\ UNCHANGED <<staged, pureVars>>

\* Lines 445-450 and 750-755: the probe FindOne({ts: {$gte: startTS}}) finds
\* an entry whose ts is startTS.
ValidateOk ==
    /\ pc = "validate"
    /\ FirstGte # 0
    /\ TsOf(FirstGte) = args.startTS
    /\ pc' = "open"
    /\ UNCHANGED <<args, head, lo, cause, clients, cursor, oplog, inflight,
                   delivered, started, completed, errLogged>>
    /\ UNCHANGED <<staged, pureVars>>

\* Lines 446-449 and 751-754: the probe fails (no entry, or the query
\* itself), or the first entry has another ts.
ValidateAbort(queryFails) ==
    /\ pc = "validate"
    /\ \/ /\ queryFails \/ FirstGte = 0
          /\ Fatal("probe")
       \/ /\ ~queryFails
          /\ FirstGte # 0
          /\ TsOf(FirstGte) # args.startTS
          /\ Fatal("watermark")
    /\ UNCHANGED <<args, head, lo, clients, cursor, oplog, inflight, delivered,
                   started, completed, errLogged>>
    /\ UNCHANGED <<staged, pureVars>>

(* Lines 462-466: with endTS set the replay sends the filter                *)
(* {$and: {ts: {$gte: startTS}, ts: {$lte: endTS}}}, whose $and holds a     *)
(* document (bson.D) where the server takes an array only: the server      *)
(* rejects the query.                                                      *)
FilterRejected == args.job = "replay" /\ args.endTS # 0

\* Lines 488-492 and 757-761: Find opens the main cursor on the collection
\* as it is now, before the first entry with ts >= startTS it still holds.
OpenCursor ==
    /\ pc = "open"
    /\ ~FilterRejected
    /\ cursor' = [state |-> "open", pos |-> IF FirstGte = 0 THEN head ELSE FirstGte - 1]
    /\ pc' = "next"
    /\ UNCHANGED <<args, head, lo, cause, clients, oplog, inflight, delivered,
                   started, completed, errLogged>>
    /\ UNCHANGED <<staged, pureVars>>

\* Lines 489-491 and 758-760: Find fails, because the query could not be
\* run or because the server rejects the filter.
OpenFail(queryFails) ==
    /\ pc = "open"
    /\ queryFails \/ FilterRejected
    /\ Fatal(IF queryFails THEN "open" ELSE "filter")
    /\ UNCHANGED <<args, head, lo, clients, cursor, oplog, inflight, delivered,
                   started, completed, errLogged>>
    /\ UNCHANGED <<staged, pureVars>>

\* The entry after the cursor's position was overwritten: the server kills
\* the cursor and cur.Next returns false.
Dead == cursor.pos < lo

\* cur.Next has an entry to return.
HasNext == ~Dead /\ cursor.pos < head /\ InFilter(cursor.pos + 1)

\* ReplayStep with the destination call issued without waiting for it.
ReplayStepAsync(e) ==
    /\ pc = "next"
    /\ args.job = "replay"
    /\ HasNext
    /\ cursor' = [cursor EXCEPT !.pos = @ + 1]
    /\ delivered' = Append(delivered, cursor.pos + 1)
    /\ LET out == Dispatch(e, args.nsSlice, args.nsnsMap) IN
        \/ /\ out.act = "op"
           /\ oplog' = [idx |-> cursor.pos + 1, e |-> e]
           /\ inflight' = out
           /\ started' = Append(started, cursor.pos + 1)
        \/ /\ out.act \in {"skip", "none"}
           /\ oplog' = [idx |-> 0, e |-> NoEntry]
           /\ UNCHANGED <<inflight, started>>
    /\ pc' = "next"
    /\ UNCHANGED <<args, head, lo, cause, clients, completed, errLogged>>
    /\ UNCHANGED <<staged, pureVars>>

\* Lines 499-589, one iteration of the replay loop on entry e: Next, both
\* Decodes, the heartbeat CustGetLatestOplogTimestamp (it only logs), then
\* the dispatch up to the destination call, which has not returned yet.
ReplayStep(e) ==
    /\ pc = "next"
    /\ args.job = "replay"
    /\ HasNext
    /\ cursor' = [cursor EXCEPT !.pos = @ + 1]
    /\ delivered' = Append(delivered, cursor.pos + 1)
    /\ LET out == Dispatch(e, args.nsSlice, args.nsnsMap) IN
        \/ /\ out.act = "op"
           /\ oplog' = [idx |-> cursor.pos + 1, e |-> e]
           /\ inflight' = out
           /\ started' = Append(started, cursor.pos + 1)
           /\ pc' = "apply"
           /\ UNCHANGED <<cause, clients>>
        \/ /\ out.act \in {"skip", "none"}
           /\ oplog' = [idx |-> 0, e |-> NoEntry]
           /\ pc' = "next"
           /\ UNCHANGED <<inflight, started, cause, clients>>
    /\ UNCHANGED <<args, head, lo, completed, errLogged>>
    /\ UNCHANGED <<staged, pureVars>>

\* Lines 534-548: a type assertion of the switch panics on entry e; nothing
\* recovers it, the deferred calls run and the process ends.
ReplayPanic(e) ==
    /\ pc = "next"
    /\ args.job = "replay"
    /\ HasNext
    /\ Dispatch(e, args.nsSlice, args.nsnsMap).act = "panic"
    /\ oplog' = [idx |-> cursor.pos + 1, e |-> e]
    /\ delivered' = Append(delivered, cursor.pos + 1)
    /\ pc' = "panic"
    /\ cause' = "panic"
    /\ Deferred
    /\ UNCHANGED <<args, head, lo, inflight, started, completed, errLogged>>
    /\ UNCHANGED <<staged, pureVars>>

\* Lines 532-582: the destination call returns; an error is logged and the
\* loop goes on.
ReplayReturn(err) ==
    /\ pc = "apply"
    /\ args.job = "replay"
    /\ completed' = Append(completed, oplog.idx)
    /\ errLogged' = IF err THEN errLogged \cup {oplog.idx} ELSE errLogged
    /\ inflight' = NoCall
    /\ oplog' = [idx |-> 0, e |-> NoEntry]
    /\ pc' = "next"
    /\ UNCHANGED <<args, head, lo, cause, clients, cursor, delivered, started>>
    /\ UNCHANGED <<staged, pureVars>>

\* Lines 764-784, one iteration of the staging loop on entry e: Next,
\* Decode, the heartbeat, then InsertOne into syncoplog.oplog.rs.
StageStep(e) ==
    /\ pc = "next"
    /\ args.job = "stage"
    /\ HasNext
    /\ cursor' = [cursor EXCEPT !.pos = @ + 1]
    /\ oplog' = [idx |-> cursor.pos + 1, e |-> e]
    /\ delivered' = Append(delivered, cursor.pos + 1)
    /\ inflight' = Outcome("op", "InsertOne", <<"syncoplog">>, <<"oplog", ".", "rs">>)
    /\ started' = Append(started, cursor.pos + 1)
    /\ pc' = "apply"
    /\ UNCHANGED <<args, head, lo, cause, clients, completed, errLogged>>
    /\ UNCHANGED <<staged, pureVars>>

\* The top-level field names of an oplog entry: only an update has o2.
TopKeys(e) ==
    {"ts", "op", "ns", "o"} \cup (IF e.op = "u" THEN {"o2"} ELSE {})

(* Lines 763 and 768: the map oplog is declared before the loop and every  *)
(* Decode writes the fields of the entry into it without emptying it.      *)
(* Before a Decode it holds the fields of the document written last.       *)
OplogMapKeys ==
    IF staged = <<>> THEN {} ELSE staged[Len(staged)].keys

(* Lines 784-787: InsertOne returns; an error ends the process.  The       *)
(* document written is the map: the fields it held and those of the entry. *)
StageReturn(err) ==
    /\ pc = "apply"
    /\ args.job = "stage"
    /\ completed' = Append(completed, oplog.idx)
    /\ errLogged' = IF err THEN errLogged \cup {oplog.idx} ELSE errLogged
    /\ staged' = IF err THEN staged
                 ELSE Append(staged, [idx |-> oplog.idx, src |-> TopKeys(oplog.e),
                                      keys |-> OplogMapKeys \cup TopKeys(oplog.e)])
    /\ inflight' = NoCall
    /\ oplog' = [idx |-> 0, e |-> NoEntry]
    /\ IF err THEN Fatal("insert") ELSE pc' = "next" /\ UNCHANGED cause
    /\ UNCHANGED <<args, head, lo, clients, cursor, delivered, started>>
    /\ UNCHANGED pureVars

\* Lines 504-511 and 768-771: Next returned an entry that does not decode.
DecodeFail ==
    /\ pc = "next"
    /\ HasNext
    /\ cursor' = [cursor EXCEPT !.pos = @ + 1]
    /\ Fatal("decode")
    /\ UNCHANGED <<args, head, lo, clients, oplog, inflight, delivered, started,
                   completed, errLogged>>
    /\ UNCHANGED <<staged, pureVars>>

\* Lines 499 and 764: cur.Next returns false (the cursor is exhausted and not
\* tailable, or it died, or the connection failed); cur.Err is not read
\* after the loop, the function returns and its deferred calls run.
LoopEnd(connFails) ==
    /\ pc = "next"
    /\ \/ connFails
       \/ Dead
       \/ ~HasNext /\ ~Tailing
    /\ pc' = "done"
    /\ cause' = IF Dead \/ connFails THEN "cursor" ELSE "end"
    /\ Deferred
    /\ UNCHANGED <<args, head, lo, oplog, inflight, delivered, started, completed,
                   errLogged>>
    /\ UNCHANGED <<staged, pureVars>>

Next ==
    \/ SrcWrite
    \/ SrcTruncate
    \/ BadNamespace
    \/ Connect
    \/ \E which \in {"src", "dst"} : ConnectFail(which)
    \/ ValidateOk
    \/ \E queryFails \in BOOLEAN : ValidateAbort(queryFails)
    \/ OpenCursor
    \/ \E queryFails \in BOOLEAN : OpenFail(queryFails)
    \/ \E e \in Entries : ReplayStep(e)
    \/ \E e \in Entries : ReplayPanic(e)
    \/ \E err \in BOOLEAN : ReplayReturn(err)
    \/ \E e \in Entries : StageStep(e)
    \/ \E err \in BOOLEAN : StageReturn(err)
    \/ DecodeFail
    \/ \E connFails \in BOOLEAN : LoopEnd(connFails)

Spec == Init /\ [][Next]_vars

(* --------------------- the dispatch of one entry ---------------------- *)

\* The job is not running: only the dispatch is computed.
JobIdle ==
    /\ JobAtStart(Call("replay", TsOf(1), 0, EmptyStr, <<>>, NoMap))

InitDispatch ==
    /\ JobIdle
    /\ dIn \in [e : Entries, nsSlice : NsSlices, nsnsMap : NsMaps]
    /\ dOut = NoCall
    /\ CopyIdle

\* Lines 527-588 on the entry dIn.e with the filter and the mapping of dIn.
DispatchEntry ==
    /\ dOut = NoCall
    /\ dOut' = Dispatch(dIn.e, dIn.nsSlice, dIn.nsnsMap)
    /\ UNCHANGED <<dIn, jobVars, copyVars, poolVars>>

NextDispatch == DispatchEntry

SpecDispatch == InitDispatch /\ [][NextDispatch]_vars

\* The dispatch of dIn has been computed.
Dispatched == dOut # NoCall

(* ------ CustSyncCollection, CustSyncIndex and CustInsertMany ---------- *)

\* The variables the copy never touches.
notCopyVars == <<jobVars, dIn, dOut, poolVars>>

At(at, c) == [at |-> at, cause |-> c]

\* logger.Fatal, log.Fatal: os.Exit(1), no deferred function runs.
CopyFatal(c) == cpc' = At("fatal", c)

\* The deferred calls of CustSyncCollection: cur.Close, dstClient.Disconnect,
\* srcClient.Disconnect.
CopyDeferred ==
    open' = [src |-> open.src - 1, dst |-> open.dst - 1, cur |-> 0]

\* The flush condition reached one document late.
BatchFullLate(n) == n % BatchSize = 1

\* Line 283: docNum%10000 == 0.
BatchFull(n) == n % BatchSize = 0

\* The job given up as soon as a bulk insert has failed.
MustAbortOnBulkError(bulk, f) == bulk = "err"

\* Lines 285 and 295: failNum != 0, whatever InsertMany itself returned.
MustAbort(bulk, f) == f # 0

\* The handler counting a duplicate key as a failure.
InsertManyErrHandlerDupFails(updateOverwrite, present, err) ==
    IF err \/ (~updateOverwrite /\ present)
    THEN [write |-> FALSE, ok |-> FALSE]
    ELSE [write |-> TRUE, ok |-> TRUE]

\* The handler replacing in both modes.
InsertManyErrHandlerReplaces(updateOverwrite, present, err) ==
    IF err THEN [write |-> FALSE, ok |-> FALSE] ELSE [write |-> TRUE, ok |-> TRUE]

\* The handler inserting in both modes.
InsertManyErrHandlerInserts(updateOverwrite, present, err) ==
    IF err
    THEN [write |-> FALSE, ok |-> FALSE]
    ELSE IF present
         THEN [write |-> FALSE, ok |-> TRUE]
         ELSE [write |-> TRUE, ok |-> TRUE]

(* Lines 328-369, insertManyErrHandler on one document: present says the   *)
(* destination holds a document with its _id, err that the server call     *)
(* fails for another reason than a duplicate key.  write: the destination  *)
(* now holds the source's document; ok: sucessNum++, else failNum++.       *)
InsertManyErrHandler(updateOverwrite, present, err) ==
    IF updateOverwrite
    THEN \* ReplaceOne({_id: doc._id}, doc, upsert)
         IF err
         THEN [write |-> FALSE, ok |-> FALSE]
         ELSE [write |-> TRUE, ok |-> TRUE]
    ELSE \* InsertOne(doc)
         IF err
         THEN [write |-> FALSE, ok |-> FALSE]
         ELSE IF present
              THEN [write |-> FALSE, ok |-> TRUE]     \* E11000 duplicate key error
              ELSE [write |-> TRUE, ok |-> TRUE]

\* The position of the first document of the batch b whose _id the
\* collection coll holds already, 0 when there is none.
FirstDup(b, coll) ==
    IF \E i \in 1..Len(b) : coll[b[i]] # "none"
    THEN CHOOSE i \in 1..Len(b) :
            /\ coll[b[i]] # "none"
            /\ \A j \in 1..(i - 1) : coll[b[j]] = "none"
    ELSE 0

\* Line 316, the ordered InsertMany: the position of the document it stops
\* at, 0 when it inserts them all; fail is the position of a document the
\* server rejects for another reason than its _id, 0 when there is none.
BulkStop(b, coll, fail) ==
    IF FirstDup(b, coll) = 0 THEN fail
    ELSE IF fail = 0 \/ FirstDup(b, coll) < fail THEN FirstDup(b, coll) ELSE fail

\* The collection coll after the first upto documents of b were inserted.
Inserted(coll, b, upto) ==
    [i \in Ids |-> IF \E j \in 1..upto : b[j] = i THEN "src" ELSE coll[i]]

\* A call of CustInsertMany on the documents b, from line 284 (in the loop)
\* or from line 294 (atEnd), that has not returned.
Submitted(b, atEnd) ==
    [docs |-> b, atEnd |-> atEnd, bulk |-> "", returned |-> FALSE,
     sucessNum |-> 0, failNum |-> 0]

\* Lines 241-243 and 162-170: CustSyncIndex connects the source and lists
\* its indexes.
SyncIndexList(err) ==
    /\ cpc = At("start", "")
    /\ ~copyArgs.noIndex
    /\ IF err
       THEN /\ open' = [open EXCEPT !.src = @ + 1]
            /\ CopyFatal("list")
       ELSE /\ open' = [open EXCEPT !.src = @ + 1, !.cur = @ + 1]
            /\ cpc' = At("index", "")
    /\ faulty' = (faulty \/ err)
    /\ UNCHANGED <<copyArgs, idxNum, docNum, docs, insertedNum, dstColl, docsChan,
                   sucessNum, failNum, batches, run>>
    /\ UNCHANGED notCopyVars

(* Lines 172-233, one iteration of the loop of CustSyncIndex on the index  *)
(* SrcIndexes[idxNum + 1]: Decode, the options, a new destination client   *)
(* whose Disconnect is deferred to the return of the function, CreateOne.  *)
(* res is what happens: "ok", "decode" (Decode fails), "exists" (the       *)
(* destination reports that the index already exists), "other".            *)
SyncIndexCreate(res) ==
    /\ cpc = At("index", "")
    /\ idxNum < Len(SrcIndexes)
    /\ IF res = "decode"
       THEN /\ CopyFatal("decode")
            /\ UNCHANGED <<open, idxNum>>
       ELSE /\ open' = [open EXCEPT !.dst = @ + 1]
            /\ IF res = "ok"
               THEN idxNum' = idxNum + 1 /\ UNCHANGED cpc
               ELSE CopyFatal(res) /\ UNCHANGED idxNum
    /\ faulty' = (faulty \/ res # "ok")
    /\ UNCHANGED <<copyArgs, docNum, docs, insertedNum, dstColl, docsChan,
                   sucessNum, failNum, batches, run>>
    /\ UNCHANGED notCopyVars

\* Lines 172 and 234: cur.Next returns false, CustSyncIndex returns and its
\* deferred calls run: every dstClient.Disconnect, cur.Close,
\* srcClient.Disconnect.
SyncIndexReturn ==
    /\ cpc = At("index", "")
    /\ idxNum = Len(SrcIndexes)
    /\ open' = [src |-> open.src - 1, dst |-> open.dst - idxNum, cur |-> open.cur - 1]
    /\ cpc' = At("connect", "")
    /\ UNCHANGED <<copyArgs, idxNum, docNum, docs, insertedNum, dstColl, docsChan,
                   sucessNum, failNum, batches, run, faulty>>
    /\ UNCHANGED notCopyVars

(* Lines 246-263: both clients connect, Find opens the cursor.  When Find  *)
(* fails CheckErr only logs: cur is nil, cur.Next panics, the deferred     *)
(* calls run and the process ends.                                         *)
CopyFind(err) ==
    /\ cpc = At("connect", "") \/ (cpc = At("start", "") /\ copyArgs.noIndex)
    /\ IF err
       THEN /\ cpc' = At("panic", "find")
            /\ UNCHANGED open
       ELSE /\ cpc' = At("next", "")
            /\ open' = [src |-> open.src + 1, dst |-> open.dst + 1, cur |-> open.cur + 1]
    /\ faulty' = (faulty \/ err)
    /\ UNCHANGED <<copyArgs, idxNum, docNum, docs, insertedNum, dstColl, docsChan,
                   sucessNum, failNum, batches, run>>
    /\ UNCHANGED notCopyVars

(* Lines 270-284, one iteration of the loop: Next returns the document     *)
(* docNum + 1, Decode, append, and CustInsertMany is called when the batch *)
(* is full.                                                                *)
CopyNext(err) ==
    /\ cpc = At("next", "")
    /\ docNum < copyArgs.srcDocs
    /\ IF err
       THEN /\ CopyFatal("decode")
            /\ UNCHANGED <<docNum, docs, batches>>
       ELSE /\ docNum' = docNum + 1
            /\ docs' = Append(docs, docNum + 1)
            /\ IF BatchFull(docNum + 1)
               THEN /\ batches' = Append(batches, Submitted(Append(docs, docNum + 1), FALSE))
                    /\ cpc' = At("bulk", "")
               ELSE UNCHANGED <<batches, cpc>>
    /\ faulty' = (faulty \/ err)
    /\ UNCHANGED <<copyArgs, open, idxNum, insertedNum, dstColl, docsChan,
                   sucessNum, failNum, run>>
    /\ UNCHANGED notCopyVars

(* Lines 270 and 293-294: cur.Next returns false, at the end of the source *)
(* or because the cursor failed (cur.Err is not read); what is left in     *)
(* docs is handed to CustInsertMany, and with nothing left the function    *)
(* returns.                                                                *)
CopyLoopEnd(connFails) ==
    /\ cpc = At("next", "")
    /\ IF connFails THEN docNum < copyArgs.srcDocs ELSE docNum = copyArgs.srcDocs
    /\ IF Len(docs) > 0
       THEN /\ batches' = Append(batches, Submitted(docs, TRUE))
            /\ cpc' = At("bulk", "")
            /\ UNCHANGED open
       ELSE /\ cpc' = At("done", "end")
            /\ CopyDeferred
            /\ UNCHANGED batches
    /\ faulty' = (faulty \/ connFails)
    /\ UNCHANGED <<copyArgs, idxNum, docNum, docs, insertedNum, dstColl, docsChan,
                   sucessNum, failNum, run>>
    /\ UNCHANGED notCopyVars

(* CustInsertMany returns (s, f) to lines 284-291 or 294-301: the job ends *)
(* when f is not 0, else the batch is counted and emptied, and after the   *)
(* flush at the end the function returns.                                  *)
InsertManyReturn(bulk, s, f) ==
    /\ batches' = [batches EXCEPT ![Len(batches)] =
                      [@ EXCEPT !.bulk = bulk, !.returned = TRUE,
                                !.sucessNum = s, !.failNum = f]]
    /\ sucessNum' = 0
    /\ failNum' = 0
    /\ IF MustAbort(bulk, f)
       THEN /\ CopyFatal("insert")
            /\ UNCHANGED <<insertedNum, docs, open>>
       ELSE /\ insertedNum' = insertedNum + s
            /\ docs' = <<>>
            /\ IF batches[Len(batches)].atEnd
               THEN cpc' = At("done", "end") /\ CopyDeferred
               ELSE cpc' = At("next", "") /\ UNCHANGED open

(* Lines 315-324 and 388-393: the ordered InsertMany of the batch.  It     *)
(* inserts the documents before the first one the server rejects; with no  *)
(* error sucessNum is the size of the batch, else the producer and the     *)
(* workers are started on all the documents of the batch.                  *)
InsertMany(fail) ==
    /\ cpc = At("bulk", "")
    /\ fail <= Len(docs)
    /\ IF BulkStop(docs, dstColl, fail) = 0
       THEN /\ dstColl' = Inserted(dstColl, docs, Len(docs))
            /\ InsertManyReturn("ok", Len(docs), 0)
            /\ UNCHANGED docsChan
       ELSE /\ dstColl' = Inserted(dstColl, docs, BulkStop(docs, dstColl, fail) - 1)
            /\ batches' = [batches EXCEPT ![Len(batches)].bulk = "err"]
            /\ docsChan' = {docs[i] : i \in 1..Len(docs)}
            /\ sucessNum' = 0
            /\ failNum' = 0
            /\ cpc' = At("fallback", "")
            /\ UNCHANGED <<insertedNum, docs, open>>
    /\ faulty' = (faulty \/ (fail # 0 /\ BulkStop(docs, dstColl, fail) = fail))
    /\ UNCHANGED <<copyArgs, idxNum, docNum, run>>
    /\ UNCHANGED notCopyVars

(* Lines 375-380 and 328-369: one of the workers receives the document d   *)
(* and runs insertManyErrHandler on it; the workers take the documents in  *)
(* any order, the counters are updated under the lock.                     *)
FallbackDoc(d, err) ==
    /\ cpc = At("fallback", "")
    /\ d \in docsChan
    /\ docsChan' = docsChan \ {d}
    /\ LET h == InsertManyErrHandler(copyArgs.updateOverwrite, dstColl[d] # "none", err) IN
        /\ dstColl' = IF h.write THEN [dstColl EXCEPT ![d] = "src"] ELSE dstColl
        /\ sucessNum' = IF h.ok THEN sucessNum + 1 ELSE sucessNum
        /\ failNum' = IF h.ok THEN failNum ELSE failNum + 1
    /\ faulty' = (faulty \/ err)
    /\ UNCHANGED <<copyArgs, cpc, open, idxNum, docNum, docs, insertedNum, batches, run>>
    /\ UNCHANGED notCopyVars

\* Lines 383-392: wg.Wait returns when every document was handled, and
\* CustInsertMany returns the counters.
FallbackDone ==
    /\ cpc = At("fallback", "")
    /\ docsChan = {}
    /\ InsertManyReturn("err", sucessNum, failNum)
    /\ UNCHANGED <<copyArgs, idxNum, docNum, dstColl, docsChan, run, faulty>>
    /\ UNCHANGED notCopyVars

\* CustSyncCollection is called a second time with the same arguments, on
\* the same source and on the destination the first call left.
Rerun ==
    /\ cpc.at = "done"
    /\ run.n = 1
    /\ run' = [n |-> 2, first |-> dstColl]
    /\ cpc' = At("start", "")
    /\ idxNum' = 0
    /\ docNum' = 0
    /\ insertedNum' = 0
    /\ batches' = <<>>
    /\ UNCHANGED <<copyArgs, open, docs, dstColl, docsChan, sucessNum, failNum, faulty>>
    /\ UNCHANGED notCopyVars

InitCopy ==
    /\ JobIdle
    /\ dIn = NoInput
    /\ dOut = NoCall
    /\ \E a \in CopyCalls, d \in DstColls : CopyAtStart(a, d)
    /\ failing = {}
    /\ PoolAtStart

NextCopy ==
    \/ \E err \in BOOLEAN : SyncIndexList(err)
    \/ \E res \in {"ok", "decode", "exists", "other"} : SyncIndexCreate(res)
    \/ SyncIndexReturn
    \/ \E err \in BOOLEAN : CopyFind(err)
    \/ \E err \in BOOLEAN : CopyNext(err)
    \/ \E connFails \in BOOLEAN : CopyLoopEnd(connFails)
    \/ \E fail \in 0..BatchSize : InsertMany(fail)
    \/ \E d \in Ids, err \in BOOLEAN : FallbackDoc(d, err)
    \/ FallbackDone
    \/ Rerun

SpecCopy == InitCopy /\ [][NextCopy]_vars

(* ---- the fallback of CustInsertMany, goroutine by goroutine ---------- *)

\* What no goroutine of the fallback changes.
poolFixed ==
    <<jobVars, dIn, dOut, copyArgs, idxNum, docNum, docsChan, run, faulty, failing>>

\* What only the return of CustInsertMany to its caller changes.
callerVars == <<cpc, open, docs, insertedNum, batches>>

\* A worker leaving its loop as soon as it finds the channel empty.
DrainedWhenEmpty == buffer = <<>>

\* Line 376: the range over docsChan ends when the channel is closed and
\* empty.
Drained == producer.closed /\ buffer = <<>>

\* The counters with failNum never incremented.
CountUnderLockNoFail(ok) ==
    [sucessNum |-> IF ok THEN sucessNum + 1 ELSE sucessNum, failNum |-> failNum]

\* Lines 336-344 and 353-367: the counters after lock, ++, unlock.
CountUnderLock(ok) ==
    [sucessNum |-> IF ok THEN sucessNum + 1 ELSE sucessNum,
     failNum |-> IF ok THEN failNum ELSE failNum + 1]

\* Lines 318-326: the channel is made and the producer goroutine started.
PoolStart ==
    /\ cpc = At("fallback", "")
    /\ pool.at = "none"
    /\ pool' = [pool EXCEPT !.at = "spawn", !.first = dstColl]
    /\ UNCHANGED <<producer, buffer, workers, received, dstColl, sucessNum, failNum>>
    /\ UNCHANGED <<callerVars, poolFixed>>

\* Line 323: docsChan <- doc, which waits while the channel is full.
ProducerSend ==
    /\ pool.at \in {"spawn", "wait"}
    /\ producer.sent < Len(docs)
    /\ Len(buffer) < ChanCap
    /\ buffer' = Append(buffer, docs[producer.sent + 1])
    /\ producer' = [producer EXCEPT !.sent = @ + 1]
    /\ UNCHANGED <<workers, pool, received, dstColl, sucessNum, failNum>>
    /\ UNCHANGED <<callerVars, poolFixed>>

\* Line 325: close(docsChan) after the last document.
ProducerClose ==
    /\ pool.at \in {"spawn", "wait"}
    /\ producer.sent = Len(docs)
    /\ ~producer.closed
    /\ producer' = [producer EXCEPT !.closed = TRUE]
    /\ UNCHANGED <<buffer, workers, pool, received, dstColl, sucessNum, failNum>>
    /\ UNCHANGED <<callerVars, poolFixed>>

\* Lines 383-385: wg.Add(1) and go worker(&wg); after the last one the
\* goroutine of CustInsertMany is in wg.Wait.
PoolSpawn ==
    /\ pool.at = "spawn"
    /\ pool.started < NumWorkers
    /\ pool' = [pool EXCEPT !.at = IF pool.started + 1 = NumWorkers
                                   THEN "wait" ELSE "spawn",
                            !.started = @ + 1,
                            !.wg = @ + 1]
    /\ workers' = [workers EXCEPT ![pool.started + 1].at = "recv"]
    /\ UNCHANGED <<producer, buffer, received, dstColl, sucessNum, failNum>>
    /\ UNCHANGED <<callerVars, poolFixed>>

\* Line 376: the worker w receives the oldest document of the channel.
WorkerRecv(w) ==
    /\ workers[w].at = "recv"
    /\ buffer # <<>>
    /\ workers' = [workers EXCEPT ![w] = [at |-> "call", doc |-> Head(buffer), ok |-> FALSE]]
    /\ buffer' = Tail(buffer)
    /\ received' = Append(received, Head(buffer))
    /\ UNCHANGED <<producer, pool, dstColl, sucessNum, failNum>>
    /\ UNCHANGED <<callerVars, poolFixed>>

\* Lines 376-379: the channel is closed and empty, the worker leaves its
\* loop and calls wg.Done.
WorkerExit(w) ==
    /\ workers[w].at = "recv"
    /\ Drained
    /\ workers' = [workers EXCEPT ![w].at = "exited"]
    /\ pool' = [pool EXCEPT !.wg = @ - 1]
    /\ UNCHANGED <<producer, buffer, received, dstColl, sucessNum, failNum>>
    /\ UNCHANGED <<callerVars, poolFixed>>

\* The call of the worker w failing whenever another worker holds a
\* document it has not written yet.
WorkerCallShared(w) ==
    /\ workers[w].at = "call"
    /\ LET h == InsertManyErrHandler(copyArgs.updateOverwrite,
                                     dstColl[workers[w].doc] # "none",
                                     \/ workers[w].doc \in failing
                                     \/ \E v \in 1..NumWorkers :
                                           v # w /\ workers[v].at = "call") IN
        /\ dstColl' = IF h.write THEN [dstColl EXCEPT ![workers[w].doc] = "src"]
                      ELSE dstColl
        /\ workers' = [workers EXCEPT ![w].at = "count", ![w].ok = h.ok]
    /\ UNCHANGED <<producer, buffer, pool, received, sucessNum, failNum>>
    /\ UNCHANGED <<callerVars, poolFixed>>

\* Lines 333-334 and 350: the server runs the ReplaceOne or the InsertOne
\* of the worker w on its document and answers.
WorkerCall(w) ==
    /\ workers[w].at = "call"
    /\ LET h == InsertManyErrHandler(copyArgs.updateOverwrite,
                                     dstColl[workers[w].doc] # "none",
                                     workers[w].doc \in failing) IN
        /\ dstColl' = IF h.write THEN [dstColl EXCEPT ![workers[w].doc] = "src"]
                      ELSE dstColl
        /\ workers' = [workers EXCEPT ![w].at = "count", ![w].ok = h.ok]
    /\ UNCHANGED <<producer, buffer, pool, received, sucessNum, failNum>>
    /\ UNCHANGED <<callerVars, poolFixed>>

\* Lines 336-344 and 353-367: the worker w counts the answer under the
\* lock and goes back to the channel.
WorkerCount(w) ==
    /\ workers[w].at = "count"
    /\ sucessNum' = CountUnderLock(workers[w].ok).sucessNum
    /\ failNum' = CountUnderLock(workers[w].ok).failNum
    /\ workers' = [workers EXCEPT ![w] = [at |-> "recv", doc |-> 0, ok |-> FALSE]]
    /\ UNCHANGED <<producer, buffer, pool, received, dstColl>>
    /\ UNCHANGED <<callerVars, poolFixed>>

\* Lines 386 and 391-392: wg.Wait returns when the counter is 0, and
\* CustInsertMany returns the counters to its caller.
PoolWait ==
    /\ cpc = At("fallback", "")
    /\ pool.at = "wait"
    /\ pool.wg = 0
    /\ pool' = [pool EXCEPT !.at = "returned"]
    /\ InsertManyReturn("err", sucessNum, failNum)
    /\ UNCHANGED <<producer, buffer, workers, received, dstColl>>
    /\ UNCHANGED poolFixed

(* The state at line 315: CustSyncCollection has handed a batch of n       *)
(* documents to CustInsertMany, as the only batch of a source of n         *)
(* documents; d is the destination, empty or holding one of them, fs are   *)
(* the documents whose fallback call the server will reject for another    *)
(* reason than their _id.                                                  *)
PoolCall(u, n, d, fs) ==
    /\ copyArgs = CopyCall(u, TRUE, n)
    /\ cpc = At("bulk", "")
    /\ open = [src |-> 1, dst |-> 1, cur |-> 1]
    /\ idxNum = 0
    /\ docNum = n
    /\ docs = [j \in 1..n |-> j]
    /\ insertedNum = 0
    /\ dstColl = d
    /\ docsChan = {}
    /\ sucessNum = 0
    /\ failNum = 0
    /\ batches = <<Submitted([j \in 1..n |-> j], n < BatchSize)>>
    /\ run = [n |-> 1, first |-> d]
    /\ faulty = (fs # {})
    /\ failing = fs

InitPool ==
    /\ JobIdle
    /\ dIn = NoInput
    /\ dOut = NoCall
    /\ \E u \in BOOLEAN, n \in 1..BatchSize, d \in DstColls :
         /\ \A i \in Ids : d[i] # "none" => i <= n
         /\ \E fs \in SUBSET (1..n) : PoolCall(u, n, d, fs)
    /\ PoolAtStart

NextPool ==
    \/ \E fail \in 0..BatchSize : InsertMany(fail)
    \/ PoolStart
    \/ ProducerSend
    \/ ProducerClose
    \/ PoolSpawn
    \/ \E w \in 1..NumWorkers : WorkerRecv(w)
    \/ \E w \in 1..NumWorkers : WorkerExit(w)
    \/ \E w \in 1..NumWorkers : WorkerCall(w)
    \/ \E w \in 1..NumWorkers : WorkerCount(w)
    \/ PoolWait

SpecPool == InitPool /\ [][NextPool]_vars

\* The goroutines that can run do run, and the server answers every call.
SpecPoolFair == SpecPool /\ WF_vars(NextPool)

(* ------------------------------ properties ---------------------------- *)

\* s is strictly increasing.
Increasing(s) == \A i, j \in 1..Len(s) : i < j => s[i] < s[j]

\* The set of the elements of s.
Range(s) == {s[i] : i \in 1..Len(s)}

(* C1: the replay applies the admitted entries one at a time and in the    *)
(* order the cursor delivers them: the cursor delivers in source order,    *)
(* the destination calls are issued in that order, each entry at most      *)
(* once, each call returns before the next is issued.                      *)
C1_SerialInOrder ==
    args.job = "replay" =>
        /\ Increasing(delivered)
        /\ Increasing(started)
        /\ Range(started) \subseteq Range(delivered)
        /\ Len(completed) <= Len(started)
        /\ completed = SubSeq(started, 1, Len(completed))
        /\ Len(started) <= Len(completed) + 1
        /\ (Len(started) = Len(completed) + 1) <=> (pc = "apply")

\* Two destination calls of one replay have returned, a third is in flight.
C1_Witness ==
    /\ args.job = "replay"
    /\ Len(completed) >= 2
    /\ pc = "apply"

\* The probe of the validation finds no entry with ts >= startTS, or a first
\* one whose ts is not startTS.
WatermarkLost == FirstGte = 0 \/ TsOf(FirstGte) # args.startTS

(* C2: in the replay job and in the staging job, when the first source     *)
(* entry with ts >= startTS has another ts, or there is none, the step     *)
(* that validates ends the job: the main cursor is never opened and no     *)
(* destination call is ever issued.                                        *)
C2_WatermarkAbort ==
    /\ [][(pc = "validate" /\ pc' # "validate" /\ WatermarkLost)
            => (pc' = "fatal" /\ cursor'.state = "none" /\ started' = <<>>)]_vars
    /\ []((pc = "fatal" /\ cause \in {"probe", "watermark"})
            => (cursor.state = "none" /\ started = <<>> /\ inflight = NoCall))
    /\ [][pc = "fatal" => pc' = "fatal" /\ started' = started /\ cursor' = cursor]_vars

\* The capped log has rolled over the watermark of a replay, which aborted.
C2_Witness ==
    /\ args.job = "replay"
    /\ args.startTS = TsOf(1)
    /\ lo >= 1
    /\ pc = "fatal"
    /\ cause = "watermark"

(* C3: once the validation has passed, the replay skips no source entry    *)
(* with ts >= startTS: when the cursor has delivered an entry, it has      *)
(* delivered every earlier entry from the watermark on, whatever the       *)
(* capped log overwrites meanwhile.  (The filter of the call admits A.x,   *)
(* the namespace an entry that is never read may have.)                    *)
C3_NoEntrySkipped ==
    (args.job = "replay" /\ CustContainsNs(NsAx, args.nsSlice)) =>
        \A j \in Range(delivered) :
            \A i \in 1..j :
                TsOf(i) >= args.startTS => i \in Range(delivered)

(* C4: for an entry with op = n and empty ns, whatever the filter and the  *)
(* mapping, the dispatch issues no destination call (and does not panic).  *)
C4_NoopNoWrite ==
    (Dispatched /\ dIn.e.op = "n" /\ dIn.e.ns = EmptyStr)
        => dOut.act \in {"skip", "none"}

\* A noop that the filter admits (".x" has the prefix "."), and no call.
C4_Witness ==
    /\ Dispatched
    /\ dIn.e = ENoop
    /\ dIn.nsSlice = <<NsDotX>>
    /\ dOut.act = "none"

(* C5: with A.x mapped to B.y, every destination call issued for an i, u   *)
(* or d entry (index builds included) whose effective namespace is A.x is  *)
(* on database B, collection y.                                            *)
C5_RemapUniform ==
    ( /\ Dispatched
      /\ NsAx \in DOMAIN dIn.nsnsMap
      /\ dIn.nsnsMap[NsAx] = NsBy
      /\ EffectiveNs(dIn.e) = NsAx
      /\ dIn.e.op \in {"i", "u", "d"}
      /\ dOut.act = "op" )
        => (dOut.db = <<"B">> /\ dOut.coll = <<"y">>)

\* An index build on A.x, carried in A.system.indexes, creates its index on
\* B.y.
C5_Witness ==
    /\ Dispatched
    /\ dIn.e = EIdxAx
    /\ dIn.nsnsMap = MapAxBy
    /\ dOut = Outcome("op", "CreateIndex", <<"B">>, <<"y">>)

(* C6: with the mapping {A.x -> B.y} alone, the command of an admitted     *)
(* entry {op: c, ns: "A.$cmd"} is run on destination database B.           *)
C6_CommandRemap ==
    ( /\ Dispatched
      /\ dIn.e.op = "c"
      /\ EffectiveNs(dIn.e) = NsACmd
      /\ dIn.nsnsMap = MapAxBy
      /\ dOut.act = "op" )
        => dOut.db = <<"B">>

(* C7: a c entry whose namespace is db.$cmd is admitted by the filter if   *)
(* and only if some element of nsSlice begins with "db.".                  *)
C7_CmdAdmitIffDbPrefix ==
    ( /\ Dispatched
      /\ dIn.e.op = "c"
      /\ CustGetOplogNs(dIn.e)[2] = Cmd )
        => ( (dOut.act # "skip")
             <=> \E k \in 1..Len(dIn.nsSlice) :
                    HasPrefix(dIn.nsSlice[k], CustGetOplogNs(dIn.e)[1] \o Dot) )

\* The command on A.$cmd is run because the filter names the collection A.x.
C7_Witness ==
    /\ Dispatched
    /\ dIn.e = ECmdA
    /\ dIn.nsSlice = <<NsAx>>
    /\ dOut.act = "op"
    /\ dOut.kind = "RunCommand"

(* C8: with an empty nsSlice every entry is admitted and reaches the       *)
(* switch on its op (stated for the i, u, d and c entries whose namespace  *)
(* CustGetOplogNs could read).                                             *)
C8_EmptyFilterAdmitsAll ==
    ( /\ Dispatched
      /\ dIn.nsSlice = <<>>
      /\ dIn.e.op \in {"i", "u", "d", "c"}
      /\ EffectiveNs(dIn.e) # Dot )
        => dOut.act # "skip"

\* Every element of the filter of the call is a namespace db.coll.
FilterWellFormed ==
    \A k \in 1..Len(args.nsSlice) :
        /\ Len(SplitN2(args.nsSlice[k])) = 2
        /\ SplitN2(args.nsSlice[k])[1] # EmptyStr
        /\ SplitN2(args.nsSlice[k])[2] # EmptyStr

(* C9: a failed destination call never ends the replay; once the           *)
(* validation has passed, the replay ends abnormally only on a failure to  *)
(* open the cursor or to decode an entry (stated for the calls whose       *)
(* filter holds namespaces db.coll).                                       *)
C9_OnlyCursorErrorsEndLoop ==
    (args.job = "replay" /\ FilterWellFormed) =>
        /\ (errLogged # {} /\ pc \in {"fatal", "panic"}) => cause = "decode"
        /\ pc \in {"fatal", "panic"}
            => cause \in {"nsformat", "connect", "probe", "watermark", "open", "filter",
                          "decode"}

(* C10: no single entry, whatever its shape, ends the replay: the engine   *)
(* never panics (stated for the calls whose filter holds namespaces        *)
(* db.coll).                                                               *)
C10_NeverCrashes ==
    (args.job = "replay" /\ FilterWellFormed) => pc # "panic"

\* The update operators an oplog u entry can carry at the top level of o.
UpdateOperators == {"$set", "$unset", "$inc"}

(* C11: an admitted u entry whose o is a document is applied as update-one *)
(* when o holds an update operator, whichever it is, and as replace-one    *)
(* only when o holds none.                                                 *)
C11_UpdateOperatorIsUpdate ==
    ( /\ Dispatched
      /\ dIn.e.op = "u"
      /\ dIn.e.o.doc
      /\ dOut.act = "op" )
        => /\ dOut.kind \in {"UpdateOne", "ReplaceOne"}
           /\ (dOut.kind = "UpdateOne") <=> (dIn.e.o.keys \cap UpdateOperators # {})

\* The _ids of the documents of the source collection.
SrcIds == 1..copyArgs.srcDocs

\* The copy has returned after its cursor delivered the whole source.
CopiedAll == cpc.at = "done" /\ docNum = copyArgs.srcDocs

(* C12: under updateOverwrite = false a second CustSyncCollection on the   *)
(* same source, with no error but duplicate keys in either run, never      *)
(* changes the destination content the first run left, does not abort,     *)
(* and every CustInsertMany of it reports all its documents as successes   *)
(* and no failure.                                                         *)
C12_SecondCopyIdempotent ==
    (run.n = 2 /\ ~copyArgs.updateOverwrite /\ ~faulty) =>
        /\ dstColl = run.first
        /\ cpc.at \notin {"fatal", "panic"}
        /\ \A i \in 1..Len(batches) :
              batches[i].returned =>
                  /\ batches[i].failNum = 0
                  /\ batches[i].sucessNum = Len(batches[i].docs)
        /\ cpc.at = "done" => insertedNum = copyArgs.srcDocs

\* A second copy of a source of several batches has returned; its bulk
\* inserts failed on duplicate keys.
C12_Witness ==
    /\ run.n = 2
    /\ ~copyArgs.updateOverwrite
    /\ ~faulty
    /\ cpc.at = "done"
    /\ Len(batches) >= 2
    /\ \A i \in 1..Len(batches) : batches[i].bulk = "err"
    /\ insertedNum = copyArgs.srcDocs

C14_ReplaceOverwrites ==
    (copyArgs.updateOverwrite /\ CopiedAll) =>
        \A i \in SrcIds : dstColl[i] = "src"

\* The document 3 was there before with another content and has the
\* source's content after the copy.
C14_Witness ==
    /\ copyArgs.updateOverwrite
    /\ run.n = 1
    /\ run.first[3] = "old"
    /\ CopiedAll
    /\ copyArgs.srcDocs >= 3
    /\ batches[2].bulk = "err"
    /\ dstColl[3] = "src"

(* C15: the copy ends on "insert data err" after a call of CustInsertMany  *)
(* if and only if that call returned failNum # 0; a call whose bulk insert *)
(* failed and that returned failNum = 0 lets the job go on; no document is *)
(* handed to CustInsertMany in two calls.                                  *)
C15_AbortIffFailures ==
    /\ \A i \in 1..Len(batches) :
          (batches[i].returned /\ batches[i].failNum # 0)
              <=> (i = Len(batches) /\ cpc = At("fatal", "insert"))
    /\ \A i, j \in 1..Len(batches) :
          i # j => Range(batches[i].docs) \cap Range(batches[j].docs) = {}

\* The bulk insert of the first batch failed and its fallback reported no
\* failure; the job went on with the second batch, whose fallback reported
\* a failure, and ended.
C15_Witness ==
    /\ Len(batches) = 2
    /\ batches[1].bulk = "err"
    /\ batches[1].returned
    /\ batches[1].failNum = 0
    /\ batches[2].returned
    /\ batches[2].failNum # 0
    /\ cpc = At("fatal", "insert")

(* C16: a destination report that the index _id_ already exists never ends *)
(* the job: the index cloner goes on with the next index of the source.    *)
C16_IdIndexExistsNotFatal ==
    (idxNum < Len(SrcIndexes) /\ SrcIndexes[idxNum + 1] = "_id_")
        => cpc # At("fatal", "exists")

(* C17: when a job has ended, normally or on a fatal error, every client   *)
(* it connected is disconnected and every cursor it opened is closed: the  *)
(* replay and the staging (stated for the exits after both clients have   *)
(* connected), and the index clone and the snapshot copy.                  *)
C17_ReleasedOnEveryExit ==
    /\ (pc \in {"done", "fatal", "panic"} /\ cause # "connect") =>
          /\ clients.src # "connected"
          /\ clients.dst # "connected"
          /\ cursor.state # "open"
    /\ cpc.at \in {"done", "fatal", "panic"} => open = NoneOpen

\* The first entry the source ever writes with ts >= startTS.
FirstFrom ==
    CHOOSE i \in 1..(MaxLog + 1) :
        /\ TsOf(i) >= args.startTS
        /\ \A j \in 1..(i - 1) : TsOf(j) < args.startTS

(* C18: at every moment the documents the staging has written are, in      *)
(* write order, the first source entries with ts >= startTS, each once,    *)
(* and each with the fields of its source entry and no other (stated for   *)
(* the runs in which the capped source log has overwritten nothing).       *)
C18_StagedVerbatimPrefix ==
    (args.job = "stage" /\ lo = 0) =>
        \A k \in 1..Len(staged) :
            /\ staged[k].idx = FirstFrom + k - 1
            /\ staged[k].keys = staged[k].src

(* C19: a replay with endTS set, on local.oplog.rs or on a staged          *)
(* collection, delivers only entries with startTS <= ts <= endTS and its   *)
(* loop ends normally: the job ends abnormally only on its arguments, on a *)
(* lost watermark or on a query or a decoding that fails.                  *)
C19_BoundedReplayEnds ==
    (args.job = "replay" /\ args.endTS # 0) =>
        /\ \A i \in Range(delivered) :
              TsOf(i) >= args.startTS /\ TsOf(i) <= args.endTS
        /\ pc = "fatal" =>
              cause \in {"nsformat", "connect", "probe", "watermark", "open", "decode"}

\* The number of documents handed to CustInsertMany so far.
Handed ==
    IF batches = <<>> THEN 0
    ELSE (Len(batches) - 1) * BatchSize + Len(batches[Len(batches)].docs)

(* C20: the calls of CustInsertMany cut the sequence of the decoded         *)
(* documents into consecutive batches: the i-th call gets the i-th slice,  *)
(* every call from the loop gets exactly BatchSize documents, the call at  *)
(* the end of the cursor is the last one and gets the 1 to BatchSize - 1   *)
(* documents left, no call gets an empty batch, and when the copy has      *)
(* returned every decoded document was handed over, once.                  *)
C20_BatchPartition ==
    /\ \A i \in 1..Len(batches) :
          /\ batches[i].docs =
                [j \in 1..Len(batches[i].docs) |-> (i - 1) * BatchSize + j]
          /\ Len(batches[i].docs) >= 1
          /\ ~batches[i].atEnd => Len(batches[i].docs) = BatchSize
          /\ batches[i].atEnd =>
                (i = Len(batches) /\ Len(batches[i].docs) < BatchSize)
    /\ cpc.at = "next" => Handed + Len(docs) = docNum
    /\ cpc.at \in {"bulk", "fallback", "done"} => Handed = docNum

\* A source of two full batches and one more document was copied: three
\* calls, the last one from the end of the cursor with one document.
C20_Witness ==
    /\ cpc.at = "done"
    /\ docNum = 2 * BatchSize + 1
    /\ Len(batches) = 3
    /\ ~batches[2].atEnd
    /\ batches[3].atEnd
    /\ Len(batches[3].docs) = 1

(* C24: with a nonempty nsSlice, an i, u or d entry (index builds          *)
(* included) whose effective namespace is A.x causes a destination call    *)
(* only if A.x itself is an element of nsSlice.                            *)
C24_ExactFilterMatch ==
    ( /\ Dispatched
      /\ dIn.nsSlice # <<>>
      /\ dIn.e.op \in {"i", "u", "d"}
      /\ EffectiveNs(dIn.e) = NsAx
      /\ dOut.act = "op" )
        => \E k \in 1..Len(dIn.nsSlice) : dIn.nsSlice[k] = NsAx

\* The documents of the call of CustInsertMany under SpecPool.
PoolBatch == batches[1].docs

(* What holds of the goroutines of the fallback in every state: the        *)
(* workers have received a prefix of the batch, each document once; the    *)
(* counter of the wait group is the number of workers started and not      *)
(* exited; and once CustInsertMany has returned the producer has sent      *)
(* every document and closed the channel, the channel is empty, every      *)
(* document was received and every worker has exited.                      *)
PoolSafe ==
    /\ Len(received) <= Len(PoolBatch)
    /\ \A i \in 1..Len(received) : received[i] = PoolBatch[i]
    /\ pool.wg = Cardinality({w \in 1..NumWorkers :
                                workers[w].at \in {"recv", "call", "count"}})
    /\ pool.at = "returned" =>
          /\ producer = [sent |-> Len(PoolBatch), closed |-> TRUE]
          /\ buffer = <<>>
          /\ received = PoolBatch
          /\ pool.started = NumWorkers
          /\ \A w \in 1..NumWorkers : workers[w].at = "exited"

\* C21: the fallback always terminates without deadlock: once the bulk
\* insert of a batch of any size has failed, CustInsertMany eventually
\* returns, and it returns only after the producer has enqueued every
\* document and closed the channel, each document was taken by exactly one
\* worker, and every worker has exited.
C21_FallbackTerminates ==
    /\ []PoolSafe
    /\ (cpc = At("fallback", "")) ~> (pool.at = "returned")

\* A batch larger than the channel went through the fallback and
\* CustInsertMany has returned.
C21_Witness ==
    /\ pool.at = "returned"
    /\ Len(PoolBatch) > ChanCap
    /\ received = PoolBatch
    /\ \A w \in 1..NumWorkers : workers[w].at = "exited"

(* The fallback run by one goroutine on the first k documents of the batch *)
(* b, in the order of the batch, from the destination the failed bulk      *)
(* insert left: the destination and the counters it ends with.             *)
RECURSIVE SeqFallback(_, _)
SeqFallback(b, k) ==
    IF k = 0
    THEN [coll |-> pool.first, sucessNum |-> 0, failNum |-> 0]
    ELSE LET r == SeqFallback(b, k - 1)
             h == InsertManyErrHandler(copyArgs.updateOverwrite,
                                       r.coll[b[k]] # "none",
                                       b[k] \in failing)
         IN [coll |-> IF h.write THEN [r.coll EXCEPT ![b[k]] = "src"] ELSE r.coll,
             sucessNum |-> IF h.ok THEN r.sucessNum + 1 ELSE r.sucessNum,
             failNum |-> IF h.ok THEN r.failNum ELSE r.failNum + 1]

C23_EveryDocumentCounted ==
    \A i \in 1..Len(batches) :
        batches[i].returned =>
            /\ batches[i].sucessNum + batches[i].failNum = Len(batches[i].docs)
            /\ batches[i].bulk = "ok" =>
                  /\ batches[i].sucessNum = Len(batches[i].docs)
                  /\ batches[i].failNum = 0

\* The workers of a fallback have counted successes and failures of one
\* batch, and CustInsertMany has returned them.
C23_Witness ==
    /\ pool.at = "returned"
    /\ batches[1].bulk = "err"
    /\ batches[1].sucessNum > 0
    /\ batches[1].failNum > 0

====
